---- MODULE Spec2Model ----
(***************************************************************************)
(* A model of the search-and-scrape pipeline: WebScraper (robots policy,   *)
(* per-domain rate limiter, retrying fetcher, script-rendering fetcher,    *)
(* content extractor, scrape_page / scrape_multiple_pages) and             *)
(* SearchAndScrape.search_and_scrape with its query cache.                 *)
(*                                                                         *)
(* Strings of words (page text, record contents) are sequences of words.   *)
(* Python's None, dicts and lists are records, records and sequences.      *)
(* Time is an integer number of seconds.  The code only ever uses the      *)
(* difference of two readings of the clock, so the model keeps every       *)
(* timestamp relative to the current time: time.time() is 0 in every       *)
(* state, a timestamp taken d seconds ago is -d, and a timestamp older     *)
(* than rate_limit seconds (the only interval the code asks about) is      *)
(* kept at -rate_limit.                                                    *)
(***************************************************************************)
EXTENDS Integers, Sequences, FiniteSets, TLC

(***************************************************************************)
(* Bounds of the model.                                                    *)
(***************************************************************************)
\* longest list of URLs given to one batch (search results, urls argument)
MaxResults == 2
\* calls made in one run of the program
MaxCalls == 2
\* scrape_page calls made in one run of the program
MaxScrapes == 2
\* longest time, in seconds, one network request takes
MaxLatency == 1
\* most <a href=...> tags of a page given to extract_content on its own
MaxAnchors == 11

(***************************************************************************)
(* Program constants.                                                      *)
(***************************************************************************)
DefaultRateLimit == 1
DefaultMaxRetries == 3
LinkCap == 10

(***************************************************************************)
(* The inputs the environment supplies.                                    *)
(***************************************************************************)
\* the rate_limit and max_retries arguments a WebScraper is constructed with
RateLimitArgs == {DefaultRateLimit, 2}
MaxRetriesArgs == {1, DefaultMaxRetries}

URLs == {"http://a.com/1", "http://a.com/2", "http://b.org/1"}

\* three query strings that differ only in case or surrounding whitespace
Queries == {"ai", "AI", "ai "}

\* the include_keywords / exclude_keywords arguments of search_and_scrape
KeywordFilters ==
  {[include_keywords |-> <<>>, exclude_keywords |-> <<>>],
   [include_keywords |-> <<"news">>, exclude_keywords |-> <<"ads">>]}

\* the execution contexts of a caller that runs fetches in parallel
Contexts == {"t1", "t2"}

\* urlparse(url).netloc
netloc(url) ==
  CASE url = "http://a.com/1" -> "a.com"
    [] url = "http://a.com/2" -> "a.com"
    [] url = "http://b.org/1" -> "b.org"
    [] OTHER -> ""

Domains == {netloc(u) : u \in URLs}

\* what RobotFileParser.read() / can_fetch() come to for one URL:
\*   "raises": read() raises (network error, undecodable file)
\*   "allow" / "deny": the file was read and its rules allow / deny the URL
RobotsOutcomes == {"raises", "allow", "deny"}

\* what one requests.get(...) + raise_for_status() comes to
\*   "http_error": non-success status (requests.HTTPError)
\*   "transport_error": connection error or timeout
\* both are requests.RequestException
ResponseOutcomes == {"ok", "http_error", "transport_error"}

\* what one fetch_js_page page load comes to
\*   "launch_error": chromium.launch() raises
\*   "render_error": new_context / new_page / goto / content raises
RenderOutcomes == {"ok", "launch_error", "render_error"}

None == [tag |-> "None"]

\* response.text == ""
EmptyText == [tag |-> "str", empty |-> TRUE]

PageArticle ==
  [tag |-> "str", empty |-> FALSE, title |-> <<"Article">>,
   meta_description |-> "content", meta_keywords |-> "absent",
   paragraphs |-> <<"hello", "world">>,
   hrefs |-> <<"/x", "/x", "http://a.com/x">>]

\* <meta name="description"> without a content attribute
PageBadMeta ==
  [tag |-> "str", empty |-> FALSE, title |-> <<"Bad">>,
   meta_description |-> "no_content_attribute", meta_keywords |-> "absent",
   paragraphs |-> <<"text">>,
   hrefs |-> <<"/y">>]

\* a page whose own text holds the words of the robots denial
PageAboutRobots ==
  [tag |-> "str", empty |-> FALSE, title |-> <<"Robots">>,
   meta_description |-> "absent", meta_keywords |-> "absent",
   paragraphs |-> <<"Access", "denied", "by", "robots.txt", "explained">>,
   hrefs |-> <<>>]

Pages == {EmptyText, PageArticle, PageBadMeta, PageAboutRobots}

\* the href values of the anchors of a page with many anchors
HrefChoices == {"/x", "/y"}

\* a page that differs from PageArticle in its anchors only
AnchorPage(hrefs) == [PageArticle EXCEPT !.hrefs = hrefs]

AbsoluteHrefs == {"http://a.com/x"}

(***************************************************************************)
(* Helpers on sequences and dicts.                                         *)
(***************************************************************************)
Range(s) == {s[i] : i \in 1..Len(s)}

Take(s, n) == SubSeq(s, 1, IF Len(s) < n THEN Len(s) ELSE n)

\* dict.get(key, default)
Get(d, key, default) == IF key \in DOMAIN d THEN d[key] ELSE default

\* d[key] = value on a dict
Put(d, key, value) ==
  [k \in (DOMAIN d) \cup {key} |-> IF k = key THEN value ELSE d[k]]

\* needle in haystack, on strings of words
Contains(needle, haystack) ==
  \E i \in 0..(Len(haystack) - Len(needle)) :
    SubSeq(haystack, i + 1, i + Len(needle)) = needle

\* the sequences of distinct elements of S of length at most n
DistinctSeqs(S, n) ==
  {s \in UNION {[1..k -> S] : k \in 0..n} :
     \A i, j \in 1..Len(s) : i # j => s[i] # s[j]}

(***************************************************************************)
(* WebScraper: the pure parts.                                             *)
(***************************************************************************)
\* can_fetch with an except clause that returns False
can_fetch_fail_closed(outcome) == outcome = "allow"

\* WebScraper.can_fetch: the value returned, given what reading robots.txt
\* came to; the except clause returns True
can_fetch(outcome) ==
  IF outcome = "raises" THEN TRUE ELSE outcome = "allow"

\* a limiter that waits after the latest request to any domain
rate_limit_sleep_any_domain(lrt, domain, current_time, limit) ==
  IF \E d \in DOMAIN lrt : current_time - lrt[d] < limit
  THEN LET latest == CHOOSE d \in DOMAIN lrt :
                       \A e \in DOMAIN lrt : lrt[e] <= lrt[d]
       IN limit - (current_time - lrt[latest])
  ELSE 0

\* WebScraper.respect_rate_limit: the seconds slept before the timestamp of
\* the domain is written
rate_limit_sleep(lrt, domain, current_time, limit) ==
  IF domain \in DOMAIN lrt
  THEN LET elapsed_time == current_time - lrt[domain]
       IN IF elapsed_time < limit THEN limit - elapsed_time ELSE 0
  ELSE 0

\* scrape_page with the test of can_fetch inverted
policy_denies_inverted(allowed) == allowed

\* WebScraper.scrape_page: if not self.can_fetch(url)
policy_denies(allowed) == ~allowed

\* fetch_page with range(self.max_retries + 1)
retry_loop_one_more(n, retries) == n <= retries

\* WebScraper.fetch_page: for attempt in range(self.max_retries)
retry_loop_continues(n, retries) == n < retries

\* fetch_page with except requests.HTTPError
fetch_page_catches_http_only(outcome) == outcome = "http_error"

\* WebScraper.fetch_page: except requests.RequestException
fetch_page_catches(outcome) ==
  outcome \in {"http_error", "transport_error"}

\* WebScraper.fetch_page: time.sleep(2 ** attempt)
backoff(attempt) == 2 ^ attempt

\* WebScraper.fetch_js_page: the try block holds new_context .. content,
\* chromium.launch() is outside it
fetch_js_page_catches(outcome) == outcome = "render_error"

\* urljoin(url, href)
urljoin(url, href) ==
  IF href \in AbsoluteHrefs THEN href ELSE ("http://" \o netloc(url)) \o href

\* soup.find("meta", ...)["content"] raises KeyError on a tag without content
metadata_raises(html) ==
  \/ html.meta_description = "no_content_attribute"
  \/ html.meta_keywords = "no_content_attribute"

\* WebScraper.extract_metadata
extract_metadata(html) ==
  [title |-> IF html.title # <<>> THEN html.title ELSE <<"No", "Title">>,
   description |-> IF html.meta_description = "content"
                   THEN <<"description">> ELSE <<"No", "Description">>,
   keywords |-> IF html.meta_keywords = "content"
                THEN <<"keywords">> ELSE <<"No", "Keywords">>]

\* WebScraper.extract_content; the pages of the model stay below the
\* 2400-character cut and the 100-word summarisation threshold
extract_content(html, url) ==
  LET metadata == extract_metadata(html)
      content == html.paragraphs
      links == Take([i \in 1..Len(html.hrefs) |-> urljoin(url, html.hrefs[i])],
                    LinkCap)
  IN [title |-> metadata.title,
      description |-> metadata.description,
      keywords |-> metadata.keywords,
      content |-> IF content # <<>> THEN content
                  ELSE <<"No", "main", "content", "found.">>,
      links |-> Range(links)]

DeniedContent == <<"Access", "denied", "by", "robots.txt">>

DeniedRecord ==
  [content |-> DeniedContent, links |-> {}, title |-> <<"No", "Title">>]

FailedRecord(url) ==
  [content |-> <<"Failed", "to", "fetch", url>>, links |-> {},
   title |-> <<"No", "Title">>]

\* `not html` in scrape_page
falsy(html) == html = None \/ html = EmptyText

\* WebScraper.scrape_page, from the fetch's return value on:
\* [kind |-> "ret", rec |-> the record] or [kind |-> "raise"]
scrape_page_after_fetch(html, url) ==
  IF falsy(html) THEN [kind |-> "ret", rec |-> FailedRecord(url)]
  ELSE IF metadata_raises(html)
       THEN [kind |-> "raise", from |-> "extract_content"]
       ELSE [kind |-> "ret", rec |-> extract_content(html, url)]

(***************************************************************************)
(* SearchAndScrape: the pure parts.                                        *)
(***************************************************************************)
\* SearchModule.search: the list built from the provider's results
search_results_of(links) ==
  [i \in 1..Len(links) |->
     [title |-> <<"title", links[i]>>, link |-> links[i],
      snippet |-> <<"snippet">>]]

NoContentScraped == <<"No", "content", "scraped.">>

\* search_and_scrape without the try around scrape_page
loop_catches_nothing(caller) == FALSE

\* whether the loop over the URLs catches what scrape_page raises:
\* search_and_scrape wraps the call in try / except Exception,
\* scrape_multiple_pages does not
loop_catches(caller) == caller = "SearchAndScrape"

\* a key with case and surrounding whitespace normalised
cache_key_normalized(query) ==
  IF query \in {"ai", "AI", "ai "} THEN "ai" ELSE query

\* the key a query is cached under
cache_key(query) == query

\* a lookup by truthiness, if self.cache.get(query)
cache_contains_truthy(c, query) ==
  cache_key(query) \in DOMAIN c /\ c[cache_key(query)] # <<>>

\* query in self.cache
cache_contains(c, query) == cache_key(query) \in DOMAIN c

\* self.cache[query]
cache_get(c, query) == c[cache_key(query)]

\* a write that leaves out empty results
cache_put_nonempty(c, query, value) ==
  IF value = <<>> THEN c ELSE Put(c, cache_key(query), value)

\* self.cache[query] = value
cache_put(c, query, value) == Put(c, cache_key(query), value)

\* an early return that caches the empty list
cache_after_no_results_stores_empty(c, query) == cache_put(c, query, <<>>)

\* `if not search_results: return []`: the cache when the call returns
cache_after_no_results(c, query) == c

\* search_and_scrape, the loop over search_results that builds
\* combined_results
RECURSIVE combine(_, _, _)
combine(search_results, scraped_data, skip_restricted) ==
  IF search_results = <<>> THEN <<>>
  ELSE
    LET result == Head(search_results)
        url == result.link
        scraped_content == Get(scraped_data, url, <<>>)
        is_restricted ==
          Contains(DeniedContent, Get(scraped_content, "content", <<>>))
        content == Get(scraped_content, "content", NoContentScraped)
        word_count == IF content # NoContentScraped THEN Len(content) ELSE 0
        links == Get(scraped_content, "links", {})
        rest == combine(Tail(search_results), scraped_data, skip_restricted)
    IN IF skip_restricted /\ is_restricted THEN rest
       ELSE <<[title |-> result.title,
               snippet |-> result.snippet,
               link |-> url,
               scraped_content |-> content,
               word_count |-> IF is_restricted THEN 0 ELSE word_count,
               source |-> netloc(url),
               scraped_links |-> links]>> \o rest

(***************************************************************************)
(* The state.                                                              *)
(***************************************************************************)
VARIABLES
  \* the object the run is about: a SearchAndScrape (which builds its own
  \* WebScraper()) or a WebScraper built by the caller
  owner,
  \* WebScraper.__init__
  enable_js_arg, PLAYWRIGHT_INSTALLED, enable_js, rate_limit, max_retries,
  last_request_time,
  \* where the running call is: "idle", "can_fetch", "fetch_page",
  \* "fetch_js_page", "returned", "raised"
  pc,
  calls,
  scrapes,          \* scrape_page calls the calls so far come to
  \* the loop over urls
  urls, idx,
  \* the scrape_page call in progress (or the last one)
  robots, path, attempt, html,
  \* scrape_multiple_pages
  results,
  \* search_and_scrape
  query, skip_restricted, filters, search_results, scraped_data, ret, cache,
  \* observations of the run
  gets,             \* GET attempts of the fetch_page call
  backoffs,         \* the backoff sleeps of the fetch_page call, in order
  rate_slept,       \* the seconds the last respect_rate_limit call slept
  url_fetches,      \* fetch attempts, on either path, of the scrape_page call
  lrt_at_start,     \* the domains with a timestamp when scrape_page began
  last_dispatch,    \* per domain, when the last request was sent
  min_gap,          \* the shortest time between two consecutive requests
                    \* to one domain so far
  scrape_ret,       \* how the last scrape_page call ended
  started,          \* the URLs of the batch scrape_page was called with
  raised_urls,      \* the URLs of the batch whose scrape_page raised
  hit,              \* the search_and_scrape call found its query cached
  searched,         \* the search_and_scrape call invoked the search module
  net_ops,          \* searches, robots.txt reads and fetch attempts of the call
  cache_at_call,    \* the cache when the search_and_scrape call began
  stored,           \* query string -> the last sequence written for it
  cached_for,       \* query string -> the filters of the call that wrote it
  \* execution contexts that call respect_rate_limit on one WebScraper at
  \* the same time, each followed by its request
  ctx_pc,           \* "idle", or "sleep": between line 58 and line 61
  ctx_domain,       \* the domain of the context's URL
  ctx_wake,         \* seconds left of the context's time.sleep
  ctx_done,         \* requests the context has sent
  \* extract_content called on its own
  ex_pc,            \* "idle", "called", "returned"
  ex_html, ex_url,  \* its arguments
  ex_links          \* the links of the record it returned

config == <<owner, enable_js_arg, PLAYWRIGHT_INSTALLED, enable_js, rate_limit,
            max_retries>>
clock == <<last_request_time, last_dispatch, min_gap>>
batch == <<idx, results, scraped_data, ret, cache, stored, cached_for,
           scrape_ret, raised_urls>>
call == <<calls, scrapes, urls, query, skip_restricted, filters,
          search_results, hit, searched, cache_at_call>>
page == <<robots, path, attempt, html, gets, backoffs, rate_slept,
          url_fetches, lrt_at_start, started>>
contexts == <<ctx_pc, ctx_domain, ctx_wake, ctx_done>>
extraction == <<ex_pc, ex_html, ex_url, ex_links>>
vars == <<config, clock, pc, batch, call, page, net_ops, contexts,
          extraction>>

Unset == [tag |-> "unset"]
NoScrape == [kind |-> "none"]

\* time.time()
now == 0

\* the timestamps of a dict after d more seconds
Later(times, d) ==
  [k \in DOMAIN times |->
     IF times[k] - d < 0 - rate_limit THEN 0 - rate_limit ELSE times[k] - d]

\* WebScraper.respect_rate_limit(url) for a URL of the domain: the seconds
\* slept and last_request_time when it returns
respect_rate_limit(times, domain) ==
  LET s == rate_limit_sleep(times, domain, now, rate_limit)
  IN [slept |-> s, times |-> Put(Later(times, s), domain, now)]

\* the URL of the scrape_page call
url == urls[idx]

\* __init__ that takes the enable_js argument as it is
resolve_enable_js_as_requested(requested, installed) == requested

\* self.enable_js after __init__
resolve_enable_js(requested, installed) == requested /\ installed

\* the lists of URLs of length at most n
UrlLists(n) == UNION {[1..k -> URLs] : k \in 0..n}

Init ==
  /\ owner \in {"SearchAndScrape", "WebScraper"}
  /\ enable_js_arg \in (IF owner = "WebScraper" THEN BOOLEAN ELSE {FALSE})
  \* the import of playwright matters only to a WebScraper asked to render
  /\ PLAYWRIGHT_INSTALLED \in (IF enable_js_arg THEN BOOLEAN ELSE {FALSE})
  /\ enable_js = resolve_enable_js(enable_js_arg, PLAYWRIGHT_INSTALLED)
  /\ rate_limit \in (IF owner = "WebScraper" THEN RateLimitArgs
                                             ELSE {DefaultRateLimit})
  /\ max_retries \in (IF owner = "WebScraper" THEN MaxRetriesArgs
                                              ELSE {DefaultMaxRetries})
  /\ last_request_time = <<>>
  /\ pc = "idle"
  /\ calls = 0 /\ scrapes = 0
  /\ urls = <<>> /\ idx = 1
  /\ robots = "none" /\ path = "none" /\ attempt = 0 /\ html = Unset
  /\ results = <<>>
  /\ query = "" /\ skip_restricted = TRUE /\ search_results = <<>>
  /\ filters = [include_keywords |-> <<>>, exclude_keywords |-> <<>>]
  /\ scraped_data = <<>> /\ ret = <<>> /\ cache = <<>>
  /\ gets = 0 /\ backoffs = <<>> /\ url_fetches = 0 /\ lrt_at_start = <<>>
  /\ rate_slept = 0
  /\ last_dispatch = <<>> /\ min_gap = rate_limit
  /\ scrape_ret = NoScrape /\ started = {} /\ raised_urls = {}
  /\ hit = FALSE /\ searched = FALSE /\ net_ops = 0
  /\ cache_at_call = <<>> /\ stored = <<>> /\ cached_for = <<>>
  /\ ctx_pc = [c \in Contexts |-> "idle"]
  /\ ctx_domain = [c \in Contexts |-> ""]
  /\ ctx_wake = [c \in Contexts |-> 0]
  /\ ctx_done = [c \in Contexts |-> 0]
  /\ ex_pc = "idle" /\ ex_html = Unset /\ ex_url = "" /\ ex_links = {}

\* d seconds pass, a request to the domain leaves, and d2 more seconds pass
Dispatch(domain, d, d2) ==
  LET before == Later(last_dispatch, d) IN
  /\ min_gap' = IF domain \in DOMAIN before /\ now - before[domain] < min_gap
                THEN now - before[domain]
                ELSE min_gap
  /\ last_dispatch' = Later(Put(before, domain, now), d2)

\* a new batch begins
NewBatch ==
  /\ idx' = 1 /\ results' = <<>> /\ scraped_data' = <<>>
  /\ scrape_ret' = NoScrape /\ started' = {} /\ raised_urls' = {}
  /\ robots' = "none" /\ path' = "none" /\ attempt' = 0 /\ html' = Unset
  /\ gets' = 0 /\ backoffs' = <<>> /\ rate_slept' = 0 /\ url_fetches' = 0
  /\ lrt_at_start' = last_request_time

(***************************************************************************)
(* scrape_page has ended, with res = [kind |-> "ret", rec |-> ...] or      *)
(* [kind |-> "raise", from |-> ...]: the rest of the caller's loop body,   *)
(* and what follows the loop when this was the last URL.                   *)
(*   scrape_multiple_pages: results[url] = ..., no try                     *)
(*   search_and_scrape: scraped_data[url] = ... inside try/except          *)
(*   Exception, then the assembly and the cache write                      *)
(***************************************************************************)
AfterScrapePage(res) ==
  LET more == idx < Len(urls)
      aborts == res.kind = "raise" /\ ~loop_catches(owner)
      sd == IF res.kind = "ret" THEN Put(scraped_data, url, res.rec)
                                ELSE scraped_data
      combined_results == combine(search_results, sd, skip_restricted)
  IN
  /\ scrape_ret' = res @@ [url |-> url]
  /\ raised_urls' = IF res.kind = "raise" THEN raised_urls \cup {url}
                                          ELSE raised_urls
  /\ pc' = IF aborts THEN "raised"
           ELSE IF more THEN "can_fetch" ELSE "returned"
  /\ idx' = IF ~aborts /\ more THEN idx + 1 ELSE idx
  /\ IF owner = "WebScraper"
     THEN /\ results' = IF res.kind = "ret" THEN Put(results, url, res.rec)
                                            ELSE results
          /\ UNCHANGED <<scraped_data, ret, cache, stored, cached_for>>
     ELSE /\ scraped_data' = sd
          /\ IF aborts \/ more
             THEN UNCHANGED <<ret, cache, stored, cached_for>>
             ELSE /\ ret' = combined_results
                  /\ cache' = cache_put(cache, query, combined_results)
                  /\ stored' = Put(stored, query, combined_results)
                  /\ cached_for' = Put(cached_for, query, filters)
          /\ UNCHANGED results

(***************************************************************************)
(* scrape_page, first step: the robots policy check.                       *)
(***************************************************************************)
CanFetch ==
  /\ pc = "can_fetch"
  /\ \E outcome \in RobotsOutcomes :
       /\ robots' = outcome
       /\ attempt' = 0 /\ gets' = 0 /\ url_fetches' = 0 /\ html' = Unset
       /\ backoffs' = <<>> /\ rate_slept' = 0
       /\ lrt_at_start' = last_request_time
       /\ started' = started \cup {url}
       /\ net_ops' = net_ops + 1
       /\ IF policy_denies(can_fetch(outcome))
          THEN /\ path' = "none"
               /\ AfterScrapePage([kind |-> "ret", rec |-> DeniedRecord])
          ELSE /\ path' = IF enable_js THEN "fetch_js_page" ELSE "fetch_page"
               /\ pc' = path'
               /\ UNCHANGED batch
  /\ UNCHANGED <<config, extraction, contexts,
                 clock, call>>

(***************************************************************************)
(* fetch_page: one turn of the retry loop: respect_rate_limit, the GET,    *)
(* and on a caught failure the backoff sleep.                              *)
(***************************************************************************)
FetchPageAttempt ==
  /\ pc = "fetch_page"
  /\ retry_loop_continues(attempt, max_retries)
  /\ \E outcome \in ResponseOutcomes, lat \in 0..MaxLatency :
     \E text \in (IF outcome = "ok" THEN Pages ELSE {None}) :
       LET domain == netloc(url)
           limited == respect_rate_limit(last_request_time, domain)
           slept == limited.slept
           caught == outcome # "ok" /\ fetch_page_catches(outcome)
           after == IF caught THEN lat + backoff(attempt) ELSE lat
       IN /\ last_request_time' = Later(limited.times, after)
          /\ rate_slept' = slept
          /\ Dispatch(domain, slept, after)
          /\ gets' = gets + 1
          /\ backoffs' = IF caught THEN Append(backoffs, backoff(attempt))
                                   ELSE backoffs
          /\ url_fetches' = url_fetches + 1
          /\ net_ops' = net_ops + 1
          /\ IF outcome = "ok"
             THEN /\ html' = text
                  /\ attempt' = attempt
                  /\ AfterScrapePage(scrape_page_after_fetch(text, url))
             ELSE IF caught
             THEN /\ attempt' = attempt + 1
                  /\ UNCHANGED <<html, pc, batch>>
             ELSE /\ UNCHANGED <<html, attempt>>
                  /\ AfterScrapePage([kind |-> "raise", from |-> "fetch_page"])
  /\ UNCHANGED <<config, extraction, contexts,
                 call, robots, path, lrt_at_start, started>>

\* fetch_page: the loop is over, return None
FetchPageExhausted ==
  /\ pc = "fetch_page"
  /\ ~retry_loop_continues(attempt, max_retries)
  /\ html' = None
  /\ AfterScrapePage(scrape_page_after_fetch(None, url))
  /\ UNCHANGED <<config, extraction, contexts,
                 clock, call, robots, path, attempt, gets,
                 backoffs, rate_slept, url_fetches, lrt_at_start, started,
                 net_ops>>

(***************************************************************************)
(* fetch_js_page: one page load in a headless browser.                     *)
(***************************************************************************)
FetchJsPage ==
  /\ pc = "fetch_js_page"
  /\ \E outcome \in RenderOutcomes, lat \in 0..MaxLatency :
     \E content \in (IF outcome = "ok" THEN Pages ELSE {None}) :
       LET loaded == enable_js /\ outcome # "launch_error"
           returned == IF ~enable_js THEN TRUE
                       ELSE outcome = "ok" \/ fetch_js_page_catches(outcome)
       IN /\ IF loaded
             THEN /\ Dispatch(netloc(url), 0, lat)
                  /\ last_request_time' = Later(last_request_time, lat)
                  /\ url_fetches' = url_fetches + 1
                  /\ net_ops' = net_ops + 1
             ELSE UNCHANGED <<clock, url_fetches, net_ops>>
          /\ html' = IF returned THEN content ELSE html
          /\ IF returned
             THEN AfterScrapePage(scrape_page_after_fetch(content, url))
             ELSE AfterScrapePage([kind |-> "raise",
                                   from |-> "fetch_js_page"])
  /\ UNCHANGED <<config, extraction, contexts,
                 call, robots, path, attempt, gets,
                 backoffs, rate_slept, lrt_at_start, started>>

(***************************************************************************)
(* scrape_multiple_pages(us) is called on the WebScraper.                  *)
(***************************************************************************)
ScrapeMultiplePages ==
  /\ owner = "WebScraper"
  /\ pc \in {"idle", "returned"}
  /\ calls < MaxCalls
  /\ \E us \in UrlLists(MaxResults) :
       /\ scrapes + Len(us) <= MaxScrapes
       /\ scrapes' = scrapes + Len(us)
       /\ urls' = us
       /\ pc' = IF us = <<>> THEN "returned" ELSE "can_fetch"
  /\ calls' = calls + 1
  /\ NewBatch
  /\ UNCHANGED <<config, extraction, contexts,
                 clock, ret, cache, stored, cached_for, query,
                 skip_restricted, filters, search_results, hit, searched,
                 cache_at_call, net_ops>>

(***************************************************************************)
(* search_and_scrape(q, skip) is called on the SearchAndScrape.            *)
(***************************************************************************)
\* the query is in the cache: return self.cache[query]
SearchAndScrapeCached ==
  /\ owner = "SearchAndScrape"
  /\ pc \in {"idle", "returned"}
  /\ calls < MaxCalls
  /\ \E q \in Queries, skip \in BOOLEAN, kw \in KeywordFilters :
       /\ cache_contains(cache, q)
       /\ query' = q /\ skip_restricted' = skip /\ filters' = kw
       /\ ret' = cache_get(cache, q)
  /\ hit' = TRUE /\ searched' = FALSE /\ net_ops' = 0
  /\ cache_at_call' = cache
  /\ urls' = <<>> /\ search_results' = <<>>
  /\ scrapes' = scrapes
  /\ pc' = "returned"
  /\ calls' = calls + 1
  /\ NewBatch
  /\ UNCHANGED <<config, extraction, contexts,
                 clock, cache, stored, cached_for>>

\* the query is not cached and the search gives nothing (it failed, or no
\* result passed the filters): return []
SearchAndScrapeNoResults ==
  /\ owner = "SearchAndScrape"
  /\ pc \in {"idle", "returned"}
  /\ calls < MaxCalls
  /\ \E q \in Queries, skip \in BOOLEAN, kw \in KeywordFilters :
       /\ ~cache_contains(cache, q)
       /\ query' = q /\ skip_restricted' = skip /\ filters' = kw
       /\ cache' = cache_after_no_results(cache, q)
  /\ ret' = <<>>
  /\ hit' = FALSE /\ searched' = TRUE /\ net_ops' = 1
  /\ cache_at_call' = cache
  /\ urls' = <<>> /\ search_results' = <<>>
  /\ scrapes' = scrapes
  /\ pc' = "returned"
  /\ calls' = calls + 1
  /\ NewBatch
  /\ UNCHANGED <<config, extraction, contexts, clock, stored, cached_for>>

\* the query is not cached and the search gives results: the scrape loop
\* begins
SearchAndScrapeSearch ==
  /\ owner = "SearchAndScrape"
  /\ pc \in {"idle", "returned"}
  /\ calls < MaxCalls
  /\ \E q \in Queries, skip \in BOOLEAN, kw \in KeywordFilters :
     \E links \in DistinctSeqs(URLs, MaxResults) \ {<<>>} :
       /\ ~cache_contains(cache, q)
       /\ query' = q /\ skip_restricted' = skip /\ filters' = kw
       /\ scrapes + Len(links) <= MaxScrapes
       /\ scrapes' = scrapes + Len(links)
       /\ search_results' = search_results_of(links)
       /\ urls' = links
  /\ hit' = FALSE /\ searched' = TRUE /\ net_ops' = 1
  /\ cache_at_call' = cache
  /\ pc' = "can_fetch"
  /\ calls' = calls + 1
  /\ NewBatch
  /\ UNCHANGED <<config, extraction, contexts,
                 clock, ret, cache, stored, cached_for>>

\* a WebScraper built and driven by the caller
NextScraper ==
  \/ ScrapeMultiplePages
  \/ CanFetch
  \/ FetchPageAttempt
  \/ FetchPageExhausted
  \/ FetchJsPage

InitScraper == Init /\ owner = "WebScraper"

SpecScraper == InitScraper /\ [][NextScraper]_vars

\* a SearchAndScrape, whose WebScraper() never renders scripts
NextPipeline ==
  \/ SearchAndScrapeCached
  \/ SearchAndScrapeNoResults
  \/ SearchAndScrapeSearch
  \/ CanFetch
  \/ FetchPageAttempt
  \/ FetchPageExhausted

InitPipeline == Init /\ owner = "SearchAndScrape"

SpecPipeline == InitPipeline /\ [][NextPipeline]_vars

(***************************************************************************)
(* respect_rate_limit called from several execution contexts on one        *)
(* WebScraper.  Nothing in the code makes its lines atomic: between the    *)
(* read of last_request_time (lines 57-58) and the write (line 61) other   *)
(* contexts run.  The request leaves when the timestamp is written.        *)
(***************************************************************************)
\* lines 55-60: the context reads the clock and the domain's timestamp and
\* begins its sleep, if any
RespectRateLimitCheck(c) ==
  /\ ctx_pc[c] = "idle"
  /\ ctx_done[c] < MaxScrapes
  /\ \E u \in URLs :
       /\ ctx_domain' = [ctx_domain EXCEPT ![c] = netloc(u)]
       /\ ctx_wake' = [ctx_wake EXCEPT ![c] =
            rate_limit_sleep(last_request_time, netloc(u), now, rate_limit)]
  /\ ctx_pc' = [ctx_pc EXCEPT ![c] = "sleep"]
  /\ UNCHANGED <<config, extraction, clock, pc, batch, call, page,
                 net_ops, ctx_done>>

\* line 61 and the request that follows: the sleep is over, the context
\* writes the domain's timestamp and sends its request
RespectRateLimitUpdate(c) ==
  /\ ctx_pc[c] = "sleep"
  /\ ctx_wake[c] = 0
  /\ last_request_time' = Put(last_request_time, ctx_domain[c], now)
  /\ Dispatch(ctx_domain[c], 0, 0)
  /\ ctx_pc' = [ctx_pc EXCEPT ![c] = "idle"]
  /\ ctx_done' = [ctx_done EXCEPT ![c] = @ + 1]
  /\ UNCHANGED <<config, extraction, pc, batch, call, page, net_ops, ctx_domain,
                 ctx_wake>>

\* one second passes for every context
TimePasses ==
  /\ last_request_time' = Later(last_request_time, 1)
  /\ last_dispatch' = Later(last_dispatch, 1)
  /\ ctx_wake' = [c \in Contexts |->
                    IF ctx_wake[c] > 0 THEN ctx_wake[c] - 1 ELSE 0]
  /\ UNCHANGED <<config, extraction, min_gap, pc, batch, call, page,
                 net_ops, ctx_pc,
                 ctx_domain, ctx_done>>

NextConcurrent ==
  \/ \E c \in Contexts : RespectRateLimitCheck(c)
  \/ \E c \in Contexts : RespectRateLimitUpdate(c)
  \/ TimePasses

InitConcurrent ==
  InitScraper /\ ~enable_js_arg /\ max_retries = DefaultMaxRetries

SpecConcurrent == InitConcurrent /\ [][NextConcurrent]_vars

(***************************************************************************)
(* extract_content(html, url) called once on its own, on a page with up to *)
(* MaxAnchors anchors.                                                     *)
(***************************************************************************)
ExtractContentCall ==
  /\ ex_pc = "idle"
  /\ \E u \in URLs, n \in 0..MaxAnchors :
     \E hrefs \in [1..n -> HrefChoices] :
       /\ ex_html' = AnchorPage(hrefs)
       /\ ex_url' = u
  /\ ex_pc' = "called"
  /\ ex_links' = {}
  /\ UNCHANGED <<config, clock, pc, batch, call, page, net_ops, contexts>>

ExtractContentReturn ==
  /\ ex_pc = "called"
  /\ ex_links' = extract_content(ex_html, ex_url).links
  /\ ex_pc' = "returned"
  /\ UNCHANGED <<config, clock, pc, batch, call, page, net_ops, contexts,
                 ex_html, ex_url>>

NextExtract == ExtractContentCall \/ ExtractContentReturn

InitExtract ==
  /\ InitScraper /\ ~enable_js_arg
  /\ rate_limit = DefaultRateLimit /\ max_retries = DefaultMaxRetries

SpecExtract == InitExtract /\ [][NextExtract]_vars

(***************************************************************************)
(* The WebScraper run to the end of what it has begun.  The code is one    *)
(* thread of control and every step of scrape_page ends: requests.get and  *)
(* page.goto are given self.timeout, and time.sleep returns.  So a step    *)
(* that can be taken is taken.  Nothing makes the caller call              *)
(* scrape_multiple_pages again: no fairness on it.                         *)
(***************************************************************************)
SpecScraperFair ==
  /\ InitScraper /\ [][NextScraper]_vars
  /\ WF_vars(CanFetch) /\ WF_vars(FetchPageAttempt)
  /\ WF_vars(FetchPageExhausted) /\ WF_vars(FetchJsPage)

\* the same for the scrape loop of search_and_scrape
SpecPipelineFair ==
  /\ InitPipeline /\ [][NextPipeline]_vars
  /\ WF_vars(CanFetch) /\ WF_vars(FetchPageAttempt)
  /\ WF_vars(FetchPageExhausted)

Next == NextScraper \/ NextPipeline

Spec == Init /\ [][Next]_vars

(***************************************************************************)
(* Properties.                                                             *)
(***************************************************************************)
\* a scrape_page call has ended and no other has begun: robots, path, html,
\* gets, url_fetches and lrt_at_start are those of the call scrape_ret is of
Ended == pc \in {"can_fetch", "returned", "raised"} /\ scrape_ret.kind # "none"

Denied == scrape_ret.kind = "ret" /\ scrape_ret.rec = DeniedRecord

\* the URL has a record in the list search_and_scrape returned
InOutput(u) == \E i \in 1..Len(ret) : ret[i].link = u

C2_MinInterval == min_gap >= rate_limit

\* C3: while every attempt fails, fetch_page has sent as many GETs as it has
\* made turns of the loop, never more than max_retries, and when it returns
\* None it has sent exactly max_retries GETs.
C3_ExactRetries ==
  /\ pc = "fetch_page" => gets = attempt /\ attempt <= max_retries
  /\ (Ended /\ path = "fetch_page" /\ html = None) => gets = max_retries

C3_Witness ==
  /\ Ended /\ path = "fetch_page" /\ html = None
  /\ gets = max_retries /\ max_retries >= 2

\* C4: fetch_page never raises: a scrape_page call that took the static
\* path got from fetch_page either a page text or, with the retries used
\* up, None.
C4_FetchPageNeverRaises ==
  /\ scrape_ret.kind = "raise" => scrape_ret.from # "fetch_page"
  /\ (Ended /\ path = "fetch_page") =>
       \/ html \in Pages
       \/ html = None /\ attempt >= max_retries

C4_Witness ==
  /\ Ended /\ path = "fetch_page" /\ gets >= 2 /\ html \in Pages
  /\ scrape_ret.kind = "ret"

\* C5: when the policy check denies the URL, scrape_page returns the
\* 'Access denied by robots.txt' record at once: it calls no fetch function,
\* no fetch attempt is made and last_request_time is as it was; and a fetch
\* function runs only after a policy check that allowed the URL.
C5_DeniedNoFetch ==
  /\ robots = "deny" =>
       /\ Ended /\ Denied
       /\ path = "none" /\ url_fetches = 0 /\ gets = 0
       /\ last_request_time = lrt_at_start
  /\ (path # "none" \/ url_fetches > 0 \/ pc \in {"fetch_page", "fetch_js_page"})
       => robots \in {"raises", "allow"}

C5_Witness ==
  /\ robots = "deny" /\ Ended /\ Denied
  /\ lrt_at_start # <<>> /\ last_request_time = lrt_at_start

\* C6: nothing raised while fetching or extracting leaves scrape_page or
\* scrape_multiple_pages: every scrape_page call returns a record and the
\* batch is never cut short.
C6_NoErrorEscapes == scrape_ret.kind # "raise" /\ pc # "raised"

\* C7 as claimed: when scrape_page raises for a URL, search_and_scrape still
\* returns, the URL has a record with content 'No content scraped.' and
\* word_count 0, and every other URL of the search results was scraped and
\* has a record in the output.
C7_EveryOtherInOutput ==
  /\ pc # "raised"
  /\ (pc = "returned" /\ raised_urls # {}) =>
       \A u \in Range(urls) :
         IF u \in raised_urls
         THEN \E i \in 1..Len(ret) :
                /\ ret[i].link = u
                /\ ret[i].scraped_content = NoContentScraped
                /\ ret[i].word_count = 0
         ELSE u \in started /\ u \in DOMAIN scraped_data /\ InOutput(u)

\* C7 as amended: ... and every other URL of the search results was
\* scraped, and has a record in the output unless skip_restricted is on and
\* its scraped content holds 'Access denied by robots.txt'.
C7_FailureIsolation ==
  /\ pc # "raised"
  /\ (pc = "returned" /\ raised_urls # {}) =>
       \A u \in Range(urls) :
         IF u \in raised_urls
         THEN \E i \in 1..Len(ret) :
                /\ ret[i].link = u
                /\ ret[i].scraped_content = NoContentScraped
                /\ ret[i].word_count = 0
         ELSE /\ u \in started /\ u \in DOMAIN scraped_data
              /\ \/ InOutput(u)
                 \/ /\ skip_restricted
                    /\ Contains(DeniedContent, scraped_data[u].content)

C7_Witness ==
  /\ pc = "returned" /\ Len(urls) = 2 /\ raised_urls = {urls[1]}
  /\ Len(ret) = 2
  /\ ret[1].scraped_content = NoContentScraped
  /\ ret[2].scraped_content = <<"hello", "world">>

\* C8: a search_and_scrape call whose query is in the cache returns the
\* cached sequence and does nothing else: no search, no robots.txt read, no
\* fetch, no scrape_page call, no cache write.
C8_CacheHit ==
  (calls > 0 /\ query \in DOMAIN cache_at_call) =>
    /\ pc = "returned"
    /\ ret = cache_at_call[query]
    /\ ~searched /\ net_ops = 0 /\ started = {}
    /\ cache = cache_at_call

C8_Witness ==
  /\ calls = 2 /\ hit /\ pc = "returned"
  /\ query \in DOMAIN cache_at_call /\ ret # <<>> /\ ret = cache_at_call[query]

\* C9 as claimed: after a search_and_scrape call that missed the cache
\* returns, the query is in the cache and its value is the returned
\* sequence.
C9_EveryMissStored ==
  (pc = "returned" /\ calls > 0 /\ query \notin DOMAIN cache_at_call) =>
    cache_contains(cache, query) /\ cache_get(cache, query) = ret

\* C9 as amended: after a search_and_scrape call that missed the cache and
\* whose search gave at least one result returns, the query is in the cache
\* and its value is the returned sequence.
C9_MissWithResultsStored ==
  (/\ pc = "returned" /\ calls > 0
   /\ query \notin DOMAIN cache_at_call
   /\ search_results # <<>>) =>
    cache_contains(cache, query) /\ cache_get(cache, query) = ret

C9_Witness ==
  /\ pc = "returned" /\ ~hit /\ search_results # <<>> /\ ret # <<>>
  /\ query \notin DOMAIN cache_at_call
  /\ cache_contains(cache, query) /\ cache_get(cache, query) = ret

\* C10: a lookup hits exactly for the query strings a sequence was written
\* for, another string that differs in case or whitespace misses, and a hit
\* gives the sequence last written, the empty one included.
C10_ExactKey ==
  \A q \in Queries :
    /\ cache_contains(cache, q) <=> q \in DOMAIN stored
    /\ q \in DOMAIN stored => cache_get(cache, q) = stored[q]

C10_Witness ==
  \E q1 \in Queries, q2 \in Queries :
    /\ q1 \in DOMAIN stored /\ stored[q1] = <<>>
    /\ cache_contains(cache, q1) /\ cache_get(cache, q1) = <<>>
    /\ q2 \notin DOMAIN stored /\ ~cache_contains(cache, q2)

\* the robots policy denied the URL in the batch
PolicyDenied(u) == u \in DOMAIN scraped_data /\ scraped_data[u] = DeniedRecord

NotPolicyDenied(u) == ~PolicyDenied(u)

\* C11: a search_and_scrape call whose query was cached by a call with
\* other include / exclude keywords invokes the search module again.
C11_FreshSearchOnNewFilters ==
  (/\ pc = "returned" /\ calls > 0
   /\ query \in DOMAIN cached_for /\ cached_for[query] # filters) => searched

\* C12: with skip_restricted on, the output of a search_and_scrape call that
\* scraped holds one record for each search result whose URL the robots
\* policy did not deny, in the order of the search results, and none for a
\* denied one.
C12_OmitsExactlyDenied ==
  (pc = "returned" /\ ~hit /\ urls # <<>> /\ skip_restricted) =>
    [i \in 1..Len(ret) |-> ret[i].link] = SelectSeq(urls, NotPolicyDenied)

\* C13: in the output of a search_and_scrape call that scraped, a record's
\* word_count is 0 when the robots policy denied its URL or its content is
\* 'No content scraped.', and the number of words of its content otherwise;
\* its source is the host of its link.
C13_WordCountAndSource ==
  (pc = "returned" /\ ~hit /\ urls # <<>>) =>
    \A i \in 1..Len(ret) :
      /\ ret[i].word_count =
           IF PolicyDenied(ret[i].link)
              \/ ret[i].scraped_content = NoContentScraped
           THEN 0
           ELSE Len(ret[i].scraped_content)
      /\ ret[i].source = netloc(ret[i].link)

\* C14: when several execution contexts call the rate limiter at the same
\* time, any two consecutive requests sent to one domain are still at least
\* rate_limit seconds apart.
C14_NoRaceBypass ==
  (\E c \in Contexts : ctx_done[c] > 0) => ~(min_gap < rate_limit)

\* C15: every fetch attempt, on either path, comes after the rate-limit wait
\* for its domain and records the domain's timestamp: the time of the last
\* request sent to a domain is the domain's entry in last_request_time.
C15_EveryAttemptRateLimited ==
  \A d \in DOMAIN last_dispatch :
    /\ d \in DOMAIN last_request_time
    /\ last_request_time[d] = last_dispatch[d]

\* C16: the k-th backoff sleep of a fetch_page call lasts 2^(k-1) seconds
\* (1, 2, 4, ...), and a call that failed on every attempt has slept
\* max_retries - 1 times when it returns None: between its attempts, and
\* not after the last one.
C16_BackoffBetweenAttempts ==
  /\ \A k \in 1..Len(backoffs) : backoffs[k] = 2 ^ (k - 1)
  /\ (Ended /\ path = "fetch_page" /\ html = None) =>
       Len(backoffs) = max_retries - 1

\* C17: a scrape_page call that fetched returns the 'Failed to fetch <url>'
\* record exactly when its fetch function returned None; for any text the
\* fetch returned, the empty one included, it returns what extract_content
\* gives.
C17_FailedExactlyOnNone ==
  (Ended /\ path # "none" /\ scrape_ret.kind = "ret") =>
    /\ scrape_ret.rec = FailedRecord(scrape_ret.url) <=> html = None
    /\ html \in Pages \ {EmptyText} =>
         scrape_ret.rec = extract_content(html, scrape_ret.url)

\* C18: the fetch path is fixed at construction as (enable_js argument and
\* Playwright installed): every scrape_page call of the object that fetches
\* uses that one path and only it, and a WebScraper asked to render without
\* Playwright uses fetch_page.
C18_PathFixedAtConstruction ==
  LET chosen == IF enable_js_arg /\ PLAYWRIGHT_INSTALLED
                THEN "fetch_js_page" ELSE "fetch_page"
  IN /\ enable_js = (enable_js_arg /\ PLAYWRIGHT_INSTALLED)
     /\ path \in {"none", chosen}
     /\ pc \in {"fetch_page", "fetch_js_page"} => pc = chosen
     /\ chosen = "fetch_js_page" => gets = 0
     /\ chosen = "fetch_page" => url_fetches = gets

C18_Witness ==
  /\ enable_js_arg /\ ~PLAYWRIGHT_INSTALLED
  /\ pc = "returned" /\ Len(urls) = 2 /\ idx = 2
  /\ path = "fetch_page" /\ gets >= 1 /\ scrape_ret.kind = "ret"
  /\ Cardinality(DOMAIN results) = 2
  /\ \A u \in DOMAIN results : results[u].content = <<"hello", "world">>

\* C19: a fetch_js_page call loads the page at most once and never raises:
\* on any rendering error, the browser failing to start included, it
\* returns None.
C19_JsPageNeverRaises ==
  path = "fetch_js_page" =>
    /\ url_fetches <= 1
    /\ scrape_ret.kind = "raise" => scrape_ret.from # "fetch_js_page"

\* the URL of the scrape_page call that is fetching or has ended
fetched_url == IF pc = "fetch_page" THEN url ELSE scrape_ret.url

\* C20: the rate-limit wait for a domain looks at and writes that domain's
\* timestamp only: the seconds it sleeps are those it would sleep were no
\* other domain known, every other domain keeps its timestamp (which only
\* ages by the seconds slept), and a first request to a domain never sleeps,
\* however recent the requests to other domains.
C20_PerDomainOnly ==
  /\ \A a \in Domains :
       LET r == respect_rate_limit(last_request_time, a)
           own == [d \in (DOMAIN last_request_time) \cap {a} |->
                     last_request_time[d]]
       IN /\ r.slept = respect_rate_limit(own, a).slept
          /\ \A b \in (DOMAIN last_request_time) \ {a} :
               /\ b \in DOMAIN r.times
               /\ r.times[b] = Later(last_request_time, r.slept)[b]
  /\ ((pc = "fetch_page" \/ Ended) /\ path = "fetch_page" /\ gets >= 1) =>
       /\ \A b \in (DOMAIN lrt_at_start) \ {netloc(fetched_url)} :
            /\ b \in DOMAIN last_request_time
            /\ last_request_time[b] <= lrt_at_start[b]
       /\ (gets = 1 /\ netloc(fetched_url) \notin DOMAIN lrt_at_start) =>
            rate_slept = 0

C20_Witness ==
  /\ Ended /\ path = "fetch_page" /\ gets = 1 /\ rate_slept = 0
  /\ netloc(fetched_url) = "b.org"
  /\ "b.org" \notin DOMAIN lrt_at_start
  /\ "a.com" \in DOMAIN lrt_at_start /\ 0 - lrt_at_start["a.com"] < rate_limit
  /\ "a.com" \in DOMAIN last_request_time

\* the anchors' hrefs of the page given to extract_content, each resolved
\* against the url argument
resolved_hrefs == {urljoin(ex_url, h) : h \in Range(ex_html.hrefs)}

\* C21: the links extract_content returns are resolved hrefs of the page,
\* at most 10 of them, and exactly min(10, number of distinct resolved
\* hrefs) of them.
C21_DedupThenCap ==
  ex_pc = "returned" =>
    /\ ex_links \subseteq resolved_hrefs
    /\ Cardinality(ex_links) <= LinkCap
    /\ Cardinality(ex_links) =
         IF Cardinality(resolved_hrefs) < LinkCap
         THEN Cardinality(resolved_hrefs) ELSE LinkCap

\* C22: a search_and_scrape call whose search gave nothing returns the empty
\* list, has scraped no URL and read nothing but the search, and leaves the
\* cache as it was, without an entry for the query; a call with the same
\* query that follows it searches again.
C22_NoResultsNotCached ==
  /\ [](   (pc = "returned" /\ ~hit /\ searched /\ search_results = <<>>)
        => /\ ret = <<>> /\ started = {} /\ scraped_data = <<>>
           /\ net_ops = 1
           /\ cache = cache_at_call
           /\ ~cache_contains(cache, query))
  /\ [][   (/\ pc = "returned" /\ ~hit /\ searched /\ search_results = <<>>
            /\ calls' = calls + 1 /\ query' = query)
        => searched' /\ ~hit']_vars

C22_Witness ==
  /\ pc = "returned" /\ ~hit /\ searched /\ search_results = <<>>
  /\ calls = 2 /\ ret = <<>> /\ started = {}
  /\ cache # <<>> /\ cache = cache_at_call /\ ~cache_contains(cache, query)

\* the URLs of the batch whose scrape_page call has begun are the first idx
\* of the list (the first idx - 1 between two calls)
InListOrder ==
  /\ pc \in {"fetch_page", "fetch_js_page", "raised"}
       => started = {urls[i] : i \in 1..idx}
  /\ pc = "can_fetch" => started = {urls[i] : i \in 1..(idx - 1)}
  /\ pc = "returned" => started = Range(urls)

\* C23: whatever the robots, network and rendering outcomes, a batch that
\* has begun eventually completes (scrape_multiple_pages returns), its URLs
\* are processed one at a time in list order, and no fetch_page call sends
\* more than max_retries GETs.
C23_BatchCompletes ==
  /\ (pc \in {"can_fetch", "fetch_page", "fetch_js_page"}) ~> (pc = "returned")
  /\ [](InListOrder /\ gets <= max_retries)
  /\ [][idx' \in {idx, idx + 1, 1}]_vars

====
